---- MODULE Spec2Model ----
(***************************************************************************)
(* CTK command line parameters: the parameter registry                     *)
(* (ctkCmdLineApplication), its proxies (ctkParam), the command line scan, *)
(* the ini reader/writer and the string conversions of StringUtil.hxx.     *)
(*                                                                         *)
(* A std::string is a sequence of one-character strings.  A char* that is  *)
(* null is NullPtr.  Undefined behaviour (a null std::string argument, a   *)
(* null dereference, pop_back on an empty vector, a read outside argv) is  *)
(* a choice among UBFaults; a read of an uninitialised int is a choice     *)
(* among UninitInts.                                                       *)
(***************************************************************************)
EXTENDS Integers, Sequences, FiniteSets, TLC

VARIABLES
  param,             \* section -> key -> parameter object (or NullParam)
  commandLineFlags,  \* token -> <<section, key>>
  tags,              \* application tags: name -> string
  files,             \* the file system seen by load/save: path -> text
  pc,                \* "idle", "scan", "compact", "parse", "fault"
  fault,             \* "none" or the way the process left defined behaviour
  lastOp,            \* the operation that returned last
  argv, argc,        \* the caller's array and the caller's count
  argv0,             \* the array as it was passed
  argv1,             \* the array as the scanning loop left it
  i, index, handled, \* locals of parseCommandLine
  stream, list,      \* locals of parse: the istringstream and the section
  i2,                \* the index of the compaction loop of parseCommandLine
  param0,            \* param as it was when the running operation began
  arg,               \* the ini text, the path or the value the operation was given
  line0,             \* the ini line parse handled last
  ret,               \* the value the last operation returned
  out, err,          \* what went to std::cout, number of lines on std::cerr
  nops               \* operations begun so far

vars == <<param, commandLineFlags, tags, files, pc, fault, lastOp, argv, argc,
          argv0, argv1, i, index, handled, stream, list, i2, param0, arg, line0, ret,
          out, err, nops>>

----------------------------------------------------------------------------
(* Bounds of the model.                                                    *)

\* operations begun in one behaviour
MaxOps == 3
\* longest argument array passed to parseCommandLine
MaxArgs == 3
\* how far past argv[argc] the compaction loop may read null pointers
MaxOverrun == 2

----------------------------------------------------------------------------
(* Characters and strings.                                                 *)

\* the characters of the model in ASCII order (std::map orders by them)
Ascii == <<"\t", "\n", " ", "#", ",", "-", "0", "1", "2", "3", "4", "5", "6",
           "7", "8", "9", "=", "A", "B", "G", "S", "T", "[", "]", "a", "b",
           "c", "d", "e", "f", "g", "h", "i", "k", "l", "m", "n", "o", "p",
           "r", "s", "t", "u", "v", "x", "y">>

CharCode(c) == CHOOSE k \in 1..Len(Ascii) : Ascii[k] = c

\* std::string operator<
RECURSIVE StrLess(_, _)
StrLess(a, b) ==
  IF b = <<>> THEN FALSE
  ELSE IF a = <<>> THEN TRUE
  ELSE IF Head(a) = Head(b) THEN StrLess(Tail(a), Tail(b))
  ELSE CharCode(Head(a)) < CharCode(Head(b))

\* the keys of a std::map in iteration order
RECURSIVE SortedKeys(_)
SortedKeys(S) ==
  IF S = {} THEN <<>>
  ELSE LET m == CHOOSE x \in S : \A y \in S \ {x} : StrLess(x, y)
       IN <<m>> \o SortedKeys(S \ {m})

Upper == <<"A", "B", "G", "S", "T">>
Lower == <<"a", "b", "g", "s", "t">>

\* ::tolower
ToLower(c) ==
  IF \E k \in 1..Len(Upper) : Upper[k] = c
  THEN Lower[CHOOSE k \in 1..Len(Upper) : Upper[k] = c]
  ELSE c

IsSpace(c) == c \in {" ", "\t", "\n"}
IsDigit(c) == c \in {"0", "1", "2", "3", "4", "5", "6", "7", "8", "9"}
DigitVal(c) == CharCode(c) - CharCode("0")

NullPtr == <<"NULL">>
\* a pointer that is not null and points to no argument
GarbagePtr == <<"GARBAGE">>
\* the read itself ends the process
FaultRead == <<"FAULT">>

\* the ways the process leaves defined behaviour
UBFaults == {"abort", "exception", "segfault"}
\* what an int that was never written may hold
UninitInts == {-1, 0, 1}

----------------------------------------------------------------------------
(* StringUtil.hxx                                                          *)

RECURSIVE NatToString(_)
NatToString(n) ==
  IF n < 10 THEN <<Ascii[CharCode("0") + n]>>
  ELSE NatToString(n \div 10) \o <<Ascii[CharCode("0") + (n % 10)]>>

\* toString<int>: operator<< of an int
IntToString(n) == IF n < 0 THEN <<"-">> \o NatToString(-n) ELSE NatToString(n)

RECURSIVE SkipWs(_)
SkipWs(s) == IF s # <<>> /\ IsSpace(Head(s)) THEN SkipWs(Tail(s)) ELSE s

RECURSIVE DigitsValue(_, _)
DigitsValue(s, acc) ==
  IF s # <<>> /\ IsDigit(Head(s))
  THEN DigitsValue(Tail(s), 10 * acc + DigitVal(Head(s)))
  ELSE acc

\* operator>> into an int: the field after its sign
Unsigned(t) == IF t # <<>> /\ Head(t) \in {"-", "+"} THEN Tail(t) ELSE t

\* operator>> into "int value;".  A stream that ends before any character
\* leaves value unwritten; a field without digits writes 0 (C++11) or leaves
\* value unwritten (C++03).
IntField(t) ==
  IF t = <<>> THEN UninitInts
  ELSE IF Unsigned(t) = <<>> \/ ~IsDigit(Head(Unsigned(t))) THEN {0} \cup UninitInts
  ELSE {IF Head(t) = "-" THEN -DigitsValue(Unsigned(t), 0)
        ELSE DigitsValue(Unsigned(t), 0)}

\* stringTo<int>
StringToInt(s) == IntField(SkipWs(s))

sTrue == <<"t", "r", "u", "e">>
sFalse == <<"f", "a", "l", "s", "e">>
sYes == <<"y", "e", "s">>
sNo == <<"n", "o">>

\* toString<bool>
BoolToString(b) == IF b THEN sTrue ELSE sFalse

\* stringTo<bool>
StringToBool(s) ==
  IF s = sTrue \/ s = sYes THEN {TRUE}
  ELSE IF s = sFalse \/ s = sNo THEN {FALSE}
  ELSE {n > 0 : n \in StringToInt(s)}

\* std::getline(stream, item, delim) on a stream [buf, eof, fail]: the
\* stream and the item afterwards
RECURSIVE TakeUntil(_, _)
TakeUntil(s, d) ==
  IF s = <<>> \/ Head(s) = d THEN <<>> ELSE <<Head(s)>> \o TakeUntil(Tail(s), d)

\* the extraction, once the sentry has passed: got is what precedes the
\* delimiter, or all of buf
Extracted(buf, got) ==
  [st |-> [buf |-> IF Len(got) < Len(buf) THEN SubSeq(buf, Len(got) + 2, Len(buf))
                   ELSE <<>>,
           eof |-> Len(got) >= Len(buf),
           fail |-> (Len(got) >= Len(buf) /\ got = <<>>)],
   item |-> got]

GetLine(st, item, d) ==
  IF st.eof \/ st.fail
  THEN [st |-> [st EXCEPT !.fail = TRUE], item |-> item]
  ELSE Extracted(st.buf, TakeUntil(st.buf, d))

IStringStream(s) == [buf |-> s, eof |-> FALSE, fail |-> FALSE]

\* vectortoString with delim ","
RECURSIVE IntVectorToString(_)
IntVectorToString(v) ==
  IF v = <<>> THEN <<>>
  ELSE IF Len(v) = 1 THEN IntToString(v[1])
  ELSE IntToString(v[1]) \o <<",">> \o IntVectorToString(Tail(v))

\* the loop of stringToVector: the items pushed and the item left in "item"
RECURSIVE VectorItems(_, _, _, _)
PushBack(g, d, acc) ==
  IF g.st.fail THEN [items |-> acc, item |-> g.item]
  ELSE VectorItems(g.st, g.item, d, Append(acc, g.item))

VectorItems(st, item, d, acc) == PushBack(GetLine(st, item, d), d, acc)

\* every vector the scalar conversions of the items can give
RECURSIVE IntItems(_)
IntItems(items) ==
  IF items = <<>> THEN {<<>>}
  ELSE {<<n>> \o r : n \in StringToInt(Head(items)), r \in IntItems(Tail(items))}

\* stringToVector<int>(in, ','): ub when pop_back meets an empty vector
PopBack(r) ==
  [ub |-> r.item = <<>> /\ r.items = <<>>,
   vals |-> IntItems(IF r.item = <<>> /\ r.items # <<>>
                     THEN SubSeq(r.items, 1, Len(r.items) - 1) ELSE r.items)]

StringToIntVector(s) == PopBack(VectorItems(IStringStream(s), <<>>, ",", <<>>))

\* vectortoString<std::string> with delim ","
RECURSIVE StrVectorToString(_)
StrVectorToString(v) ==
  IF v = <<>> THEN <<>>
  ELSE IF Len(v) = 1 THEN v[1]
  ELSE v[1] \o <<",">> \o StrVectorToString(Tail(v))

\* stringToVector<std::string>(in, ','): stringTo<std::string> returns the
\* item as it is; ub when pop_back meets an empty vector
StringToStrVector(s) ==
  LET Pop(r) ==
        [ub |-> r.item = <<>> /\ r.items = <<>>,
         vals |-> {IF r.item = <<>> /\ r.items # <<>>
                   THEN SubSeq(r.items, 1, Len(r.items) - 1) ELSE r.items}]
  IN Pop(VectorItems(IStringStream(s), <<>>, ",", <<>>))

RECURSIVE LTrim(_)
LTrim(s) == IF s # <<>> /\ Head(s) \in {" ", "\t"} THEN LTrim(Tail(s)) ELSE s

RECURSIVE RTrim(_)
RTrim(s) ==
  IF s # <<>> /\ s[Len(s)] \in {" ", "\t"} THEN RTrim(SubSeq(s, 1, Len(s) - 1))
  ELSE s

\* trim without its rtrim
TrimLeftOnly(s) == LTrim(s)

\* trim
Trim(s) == RTrim(LTrim(s))

----------------------------------------------------------------------------
(* Parameter objects: ctkParamDataInterface and its implementations.       *)

\* the classes new'ed by the proxies of the model: ctkParamData<T> for five
\* types T, and ctkParamDataEnumInt, ctkParamDataFile, ctkParamDataDouble
Classes ==
  {"bool", "int", "string", "intvec", "strvec", "EnumInt", "File", "Double"}

\* the type of the member "value" of each class
Base(cls) ==
  CASE cls \in {"bool", "int", "string", "intvec", "strvec"} -> cls
    [] cls = "EnumInt" -> "int"
    [] cls \in {"File", "Double"} -> "string"

\* getType() of each class: getTypeName<T>(), or TYPESTR
TypeName(cls) ==
  CASE cls = "bool" -> "boolean"
    [] cls = "int" -> "integer"
    [] cls = "string" -> "string"
    [] cls = "intvec" -> "integer-vector"
    [] cls = "strvec" -> "string-vector"
    [] cls = "EnumInt" -> "integer-enumeration"
    [] cls = "File" -> "file"
    [] cls = "Double" -> "double"

EmptyMap == [x \in {} |-> <<>>]

\* m[k] = v of a std::map
MapPut(m, k, v) == [x \in DOMAIN m \cup {k} |-> IF x = k THEN v ELSE m[x]]

\* m[k] read through operator[]: the value, "" when k is new
MapGet(m, k) == IF k \in DOMAIN m THEN m[k] ELSE <<>>

\* the map after a read through operator[], which inserts a missing key
MapTouch(m, k) == IF k \in DOMAIN m THEN m ELSE MapPut(m, k, <<>>)

\* new ctkParamData<T>(): a value-initialised object; b, n, s, v and w are
\* the member "value" for a bool, an int, a string, a vector of ints and a
\* vector of strings
NewParam(cls) ==
  [cls |-> cls, b |-> FALSE, n |-> 0, s |-> <<>>, v |-> <<>>, w |-> <<>>,
   tags |-> EmptyMap, attribs |-> EmptyMap, constraints |-> EmptyMap]

\* a null ctkParamDataInterface*
NullParam ==
  [cls |-> "null", b |-> FALSE, n |-> 0, s |-> <<>>, v |-> <<>>, w |-> <<>>,
   tags |-> EmptyMap, attribs |-> EmptyMap, constraints |-> EmptyMap]

\* ctkParamData<T>::getType, ctkParamData##TYPE::getType
GetType(p) == TypeName(p.cls)

\* ctkParamData<T>::getString: toString(value)
GetString(p) ==
  CASE Base(p.cls) = "bool" -> BoolToString(p.b)
    [] Base(p.cls) = "int" -> IntToString(p.n)
    [] Base(p.cls) = "string" -> p.s
    [] Base(p.cls) = "intvec" -> IntVectorToString(p.v)
    [] Base(p.cls) = "strvec" -> StrVectorToString(p.w)

\* ctkParamData<T>::setString: value=stringTo<T>(new_value); the objects it
\* can leave, and whether it can leave defined behaviour
SetVector(p, r) ==
  [ub |-> r.ub, objs |-> IF r.ub THEN {} ELSE {[p EXCEPT !.v = x] : x \in r.vals}]

SetString(p, str) ==
  CASE Base(p.cls) = "bool" ->
         [ub |-> FALSE, objs |-> {[p EXCEPT !.b = x] : x \in StringToBool(str)}]
    [] Base(p.cls) = "int" ->
         [ub |-> FALSE, objs |-> {[p EXCEPT !.n = x] : x \in StringToInt(str)}]
    [] Base(p.cls) = "string" ->
         [ub |-> FALSE, objs |-> {[p EXCEPT !.s = str]}]
    [] Base(p.cls) = "intvec" -> SetVector(p, StringToIntVector(str))
    [] Base(p.cls) = "strvec" ->
         [ub |-> StringToStrVector(str).ub,
          objs |-> IF StringToStrVector(str).ub THEN {}
                   ELSE {[p EXCEPT !.w = x] : x \in StringToStrVector(str).vals}]

----------------------------------------------------------------------------
(* The registry: ctkCmdLineApplication::param and commandLineFlags.        *)

HasParam(pm, sec, key) == sec \in DOMAIN pm /\ key \in DOMAIN pm[sec]

\* param[section][key] = p, operator[] creating what is missing
PutParam(pm, sec, key, p) ==
  LET old == IF sec \in DOMAIN pm THEN pm[sec] ELSE EmptyMap
  IN MapPut(pm, sec, MapPut(old, key, p))

\* ctkCmdLineApplication::getParam
GetParam(pm, sec, key) == IF HasParam(pm, sec, key) THEN pm[sec][key] ELSE NullParam

\* lines 255-261: the string captured from the parameter that is replaced
Captured(pm, sec, key) ==
  IF HasParam(pm, sec, key) /\ pm[sec][key] # NullParam
  THEN GetString(pm[sec][key]) ELSE <<>>

\* lines 263-264: the captured string is applied to the new object
Reapplied(p, value) ==
  IF value # <<>> THEN SetString(p, value) ELSE [ub |-> FALSE, objs |-> {p}]

\* line 262, for every object the conversion can leave
Installed(pm, sec, key, r) ==
  [ub |-> (HasParam(pm, sec, key) /\ pm[sec][key] = NullParam) \/ r.ub,
   pms |-> {PutParam(pm, sec, key, q) : q \in r.objs}]

\* setParam without lines 263-264
SetParamForgetsString(pm, sec, key, p) ==
  Installed(pm, sec, key, [ub |-> FALSE, objs |-> {p}])

\* ctkCmdLineApplication::setParam: the registries it can leave, and whether
\* it can leave defined behaviour
SetParam(pm, sec, key, p) ==
  Installed(pm, sec, key, Reapplied(p, Captured(pm, sec, key)))

\* ctkCmdLineApplication::setFlag
SetFlag(fl, token, sec, key) == MapPut(fl, token, <<sec, key>>)

\* p->tags[name] = str for the parameter at (sec, key)
PutTag(pm, sec, key, name, str) ==
  PutParam(pm, sec, key,
           [pm[sec][key] EXCEPT !.tags = MapPut(pm[sec][key].tags, name, str)])

----------------------------------------------------------------------------
(* The proxies: ctkParam<BasicType>.                                       *)

RECURSIVE MapChars(_)
MapChars(s) ==
  IF s = <<>> THEN <<>>
  ELSE <<IF ToLower(Head(s)) = " " THEN "-" ELSE ToLower(Head(s))>>
       \o MapChars(Tail(s))

\* ctkParam::getNormName
GetNormName(sec, key) == MapChars(sec \o <<"-">> \o key)

\* ctkParam::declare(description, shortflag) on a registry [pm, fl]
\* lines 131-135
ShortFlag(reg, sec, key, shortflag) ==
  IF shortflag # <<>>
  THEN [pm |-> PutTag(reg.pm, sec, key, "flag", shortflag),
        fl |-> SetFlag(reg.fl, <<"-">> \o shortflag, sec, key)]
  ELSE reg

DeclareFlag(reg, sec, key, description, shortflag) ==
  ShortFlag([pm |-> PutTag(PutTag(reg.pm, sec, key, "longflag", GetNormName(sec, key)),
                           sec, key, "description", description),
             fl |-> SetFlag(reg.fl, <<"-", "-">> \o GetNormName(sec, key), sec, key)],
            sec, key, shortflag)

\* ctkParam::declare(description, idx)
\* line 142: tags["flag"] = tags["longflag"]
FlagFromLongFlag(p) ==
  [p EXCEPT !.tags = MapPut(MapTouch(p.tags, "longflag"), "flag",
                            MapGet(p.tags, "longflag"))]

DeclareIndex(reg, sec, key, description, idx) ==
  [pm |-> PutTag(PutTag(PutParam(reg.pm, sec, key, FlagFromLongFlag(reg.pm[sec][key])),
                        sec, key, "index", IntToString(idx)),
                 sec, key, "description", description),
   fl |-> SetFlag(reg.fl, IntToString(idx), sec, key)]

\* ctkParam::declareType: setParam of a new object, then declare("","")
DeclareType(reg, cls, sec, key) ==
  DeclareFlag([pm |-> CHOOSE x \in SetParam(reg.pm, sec, key, NewParam(cls)).pms : TRUE,
               fl |-> reg.fl], sec, key, <<>>, <<>>)

\* ctkParam::ctkParam(s, k)
\* line 103
Named(r, sec, key) ==
  [pm |-> PutTag(r.pm, sec, key, "name", GetNormName(sec, key)), fl |-> r.fl]

\* the constructor without the test of line 101
ProxyRedeclares(reg, cls, sec, key) ==
  Named(DeclareType(reg, cls, sec, key), sec, key)

Proxy(reg, cls, sec, key) ==
  Named(IF ~HasParam(reg.pm, sec, key) THEN DeclareType(reg, cls, sec, key) ELSE reg,
        sec, key)

\* the construction of a proxy: ctkParam<T>(s, k) for the template classes,
\* and ctkParam##TYPE(s, k) of DEFINE_TYPE_SPECIALIZATION for ctkParamEnumInt,
\* ctkParamFile and ctkParamDouble, which writes no tag "name"
Construct(reg, cls, sec, key) ==
  IF cls \in {"EnumInt", "File", "Double"}
  THEN IF ~HasParam(reg.pm, sec, key) THEN DeclareType(reg, cls, sec, key) ELSE reg
  ELSE Proxy(reg, cls, sec, key)

\* a value of one of the five types: the member that carries it
NoValue == [b |-> FALSE, n |-> 0, s |-> <<>>, v |-> <<>>, w |-> <<>>]

\* sameType->value
Payload(p) == [b |-> p.b, n |-> p.n, s |-> p.s, v |-> p.v, w |-> p.w]

\* a ctkParamData<T> whose value is x
Holding(T, x) ==
  [NewParam(T) EXCEPT !.b = x.b, !.n = x.n, !.s = x.s, !.v = x.v, !.w = x.w]

\* stringTo<T>(str): the values it can return, and whether it can leave
\* defined behaviour
StringTo(T, str) ==
  [ub |-> SetString(NewParam(T), str).ub,
   vals |-> {Payload(q) : q \in SetString(NewParam(T), str).objs}]

\* ctkParam<T>::getValue on the stored object p: the dynamic_cast succeeds
\* for a ctkParamData<T> only; otherwise stringTo<T>(p->getString())
GetValue(p, T) ==
  IF p.cls = T THEN [ub |-> FALSE, vals |-> {Payload(p)}]
  ELSE StringTo(T, GetString(p))

\* ctkParam<T>::setValue(x) on the stored object p; otherwise
\* p->setString(toString(x))
SetValue(p, T, x) ==
  IF p.cls = T
  THEN [ub |-> FALSE,
        objs |-> {[p EXCEPT !.b = x.b, !.n = x.n, !.s = x.s, !.v = x.v, !.w = x.w]}]
  ELSE SetString(p, GetString(Holding(T, x)))

----------------------------------------------------------------------------
(* The ini text: ctkCmdLineApplication::save and ::parse.                  *)

sGlobal == <<"G", "l", "o", "b", "a", "l">>

\* the character '\0', which no string of the model holds
NUL == "\\0"

RECURSIVE Concat(_)
Concat(ss) == IF ss = <<>> THEN <<>> ELSE Head(ss) \o Concat(Tail(ss))

\* the "key = value" lines save writes for the keys ks of one section
KeyLines(sect, ks) ==
  Concat([n \in 1..Len(ks) |->
            ks[n] \o <<" ", "=", " ">> \o GetString(sect[ks[n]]) \o <<"\n">>])

\* what save writes for the sections ss
SectionTexts(pm, ss) ==
  Concat([n \in 1..Len(ss) |->
            <<"\n", "[">> \o ss[n] \o <<"]", "\n", "\n">>
            \o KeyLines(pm[ss[n]], SortedKeys(DOMAIN pm[ss[n]])) \o <<"\n", "\n">>])

\* the text ctkCmdLineApplication::save writes to the file
SaveText(pm) == SectionTexts(pm, SortedKeys(DOMAIN pm))

\* param[sk[1]][sk[2]] read through operator[]: a missing entry is created
\* and is a null pointer
Lookup(pm, sk) ==
  IF HasParam(pm, sk[1], sk[2]) THEN pm ELSE PutParam(pm, sk[1], sk[2], NullParam)

\* lines 369 and 371: the key of a line
KeyOf(line) == Trim(GetLine(IStringStream(line), <<>>, "=").item)

\* lines 370 and 372: the value of a line
ValueOf(line) ==
  Trim(GetLine(GetLine(IStringStream(line), <<>>, "=").st, <<>>, NUL).item)

\* the registries after setString left the objects r.objs
Stored(pm, lst, key, r) ==
  [list |-> lst, pms |-> {PutParam(pm, lst, key, q) : q \in r.objs}, ub |-> r.ub,
   at |-> pm]

\* line 373: param[list][key]->setString(value)
SetByKey(pm, lst, key, value) ==
  IF HasParam(pm, lst, key) /\ pm[lst][key] # NullParam
  THEN Stored(pm, lst, key, SetString(pm[lst][key], value))
  ELSE [list |-> lst, pms |-> {}, ub |-> TRUE, at |-> Lookup(pm, <<lst, key>>)]

\* the body of the loop of parse for one line: the section afterwards, the
\* registries it can leave, whether it can leave defined behaviour, and the
\* registry at that point
ParseLine(pm, lst, line) ==
  IF Len(line) < 2 \/ line[1] = "#"
  THEN [list |-> lst, pms |-> {pm}, ub |-> FALSE, at |-> pm]
  ELSE IF line[1] = "["
  THEN [list |-> SubSeq(line, 2, Len(line) - 1), pms |-> {pm}, ub |-> FALSE,
        at |-> pm]
  ELSE SetByKey(pm, lst, KeyOf(line), ValueOf(line))

\* the loop of parse from a stream on: every way it can end, [ub, pm], ub
\* when it left defined behaviour with the registry pm
RECURSIVE ParseFrom(_, _, _)
ParseRest(r, st) ==
  (IF r.ub THEN {[ub |-> TRUE, pm |-> r.at]} ELSE {})
  \cup UNION {ParseFrom(q, st, r.list) : q \in r.pms}

ParseFrom(pm, st, lst) ==
  IF st.eof THEN {[ub |-> FALSE, pm |-> pm]}
  ELSE ParseRest(ParseLine(pm, lst, GetLine(st, <<>>, "\n").item),
                 GetLine(st, <<>>, "\n").st)

\* ctkCmdLineApplication::parse
Parse(pm, ini) == ParseFrom(pm, IStringStream(ini), sGlobal)

----------------------------------------------------------------------------
(* ctkCmdLineApplication::getSynopsis: what its operator[] reads insert.   *)

\* printOptionVerbose: the tags of a parameter that has no flag
IndexTags(t) ==
  IF MapGet(t, "index") # <<>> THEN MapTouch(MapTouch(t, "index"), "description")
  ELSE MapTouch(t, "index")

\* the tags of one parameter after the reads of its flag and longflag
FlagTags(t) ==
  IF t["flag"] = <<>> /\ t["longflag"] = <<>> THEN IndexTags(t)
  ELSE MapTouch(t, "description")

\* the tags of one parameter after getSynopsis and printOptionVerbose
SynopsisTags(t) == FlagTags(MapTouch(MapTouch(t, "flag"), "longflag"))

\* param after getSynopsis
SynopsisParam(pm) ==
  [sec \in DOMAIN pm |->
     [key \in DOMAIN pm[sec] |->
        [pm[sec][key] EXCEPT !.tags = SynopsisTags(pm[sec][key].tags)]]]

\* the application tags after getSynopsis
SynopsisAppTags(t) ==
  MapTouch(MapTouch(MapTouch(MapTouch(t, "titel"), "description"),
                    "contributor"), "acknowledgements")

----------------------------------------------------------------------------
(* ctkCmdLineApplication::getXMLDescription.  The text is the sequence of  *)
(* its pieces, [kind, name, text]: "start" is "<name", "attr" is           *)
(* " name=\"text\"", "gt" is ">", "open" is "<name>", "leaf" is             *)
(* "<name>text</name>" and "close" is "</name>".                           *)

Tok(kind, name, text) == [kind |-> kind, name |-> name, text |-> text]

\* lines 456-471 for the tag k of the map m: nothing for an empty tag, the
\* items of stringToVector<std::string> for "enumeration"
XmlTag(m, k) ==
  LET Elements(items) ==
        IF items = <<>> THEN <<>>
        ELSE <<Tok("open", "enumeration", <<>>)>>
             \o [n \in 1..Len(items) |-> Tok("leaf", "element", items[n])]
             \o <<Tok("close", "enumeration", <<>>)>>
  IN IF m[k] = <<>> THEN <<>>
     ELSE IF k = "enumeration"
     THEN Elements(CHOOSE items \in StringToStrVector(m[k]).vals : TRUE)
     ELSE <<Tok("leaf", k, m[k])>>

\* lines 443-481: the element of the parameter p at key
XmlParam(key, p) ==
  LET \* the names the model uses as keys of tags, attribs and constraints,
      \* in the order of std::string: the iteration order of the maps
      MapOrder(m) ==
        SelectSeq(<<"description", "enumeration", "fileExtensions", "flag", "index",
                    "longflag", "maximum", "minimum", "name", "step">>,
                  LAMBDA k : k \in DOMAIN m)
      \* lines 446-448
      Attribs(m, ks) ==
        Concat([n \in 1..Len(ks) |->
                  IF m[ks[n]] = <<>> THEN <<>> ELSE <<Tok("attr", ks[n], m[ks[n]])>>])
      \* lines 454-472
      Tags(m, ks) == Concat([n \in 1..Len(ks) |-> XmlTag(m, ks[n])])
      \* lines 474-480
      Constraints(m, ks) ==
        IF ks = <<>> THEN <<>>
        ELSE <<Tok("open", "constraints", <<>>)>>
             \o [n \in 1..Len(ks) |-> Tok("leaf", ks[n], m[ks[n]])]
             \o <<Tok("close", "constraints", <<>>)>>
  IN <<Tok("start", GetType(p), <<>>)>>
     \o Attribs(p.attribs, MapOrder(p.attribs))
     \o <<Tok("gt", "", <<>>), Tok("leaf", "name", key),
          Tok("leaf", "default", GetString(p))>>
     \o Tags(p.tags, MapOrder(p.tags))
     \o Constraints(p.constraints, MapOrder(p.constraints))
     \o <<Tok("close", GetType(p), <<>>)>>

\* ctkCmdLineApplication::getXMLDescription
GetXMLDescription(tg, pm) ==
  LET app_tags ==
        <<"category", "title", "description", "version", "documentation-url",
          "license", "contributor", "acknowledgements">>
      \* lines 432-434, ks being the app_tags[i] that tags.find finds
      AppTags(ks) == [n \in 1..Len(ks) |-> Tok("leaf", ks[n], tg[ks[n]])]
      \* lines 441-482
      Params(sect, ks) == Concat([n \in 1..Len(ks) |-> XmlParam(ks[n], sect[ks[n]])])
      \* lines 438-483
      Section(sec) ==
        <<Tok("open", "parameters", <<>>), Tok("leaf", "label", sec),
          Tok("leaf", "description",
              sec \o <<" ", "-", " ", "S", "e", "c", "t", "i", "o", "n">>)>>
        \o Params(pm[sec], SortedKeys(DOMAIN pm[sec]))
        \o <<Tok("close", "parameters", <<>>)>>
      \* lines 436-484
      Sections(ss) == Concat([n \in 1..Len(ss) |-> Section(ss[n])])
  IN <<Tok("decl", "xml", <<>>), Tok("open", "executable", <<>>)>>
     \o AppTags(SelectSeq(app_tags, LAMBDA k : k \in DOMAIN tg))
     \o Sections(SortedKeys(DOMAIN pm))
     \o <<Tok("close", "executable", <<>>)>>

----------------------------------------------------------------------------
(* The inputs of the model.                                                *)

sS == <<"S">>
kA == <<"A">>
kB == <<"B">>

\* the proxies the program constructs: <<class, section, key>>
Decls == {<<"bool", sS, kB>>, <<"int", sS, kA>>, <<"string", sS, kA>>,
          <<"intvec", sS, kB>>, <<"string", sGlobal, kA>>}

tXml == <<"-", "-", "x", "m", "l">>
tHelp == <<"-", "-", "h", "e", "l", "p">>
tH == <<"-", "h">>
tSaveIni == <<"-", "-", "c", "t", "k", "-", "s", "a", "v", "e", "-", "i", "n", "i">>
tLoadIni == <<"-", "-", "c", "t", "k", "-", "l", "o", "a", "d", "-", "i", "n", "i">>
tFlagA == <<"-", "-", "s", "-", "a">>
tShortB == <<"-", "b">>
tUnknown == <<"-", "u">>
t5 == <<"5">>
sHi == <<"h", "i">>
sSpHi == <<" ", "h", "i">>

\* the tokens of the argument arrays
ArgTokens == {tXml, tH, tSaveIni, tLoadIni, tFlagA, tShortB, tUnknown, t5}

\* the argument arrays passed to parseCommandLine
RECURSIVE ArgArrays(_)
ArgArrays(n) ==
  IF n = 0 THEN {<<>>}
  ELSE ArgArrays(n - 1) \cup
       {Append(a, t) : a \in {x \in ArgArrays(n - 1) : Len(x) = n - 1},
                       t \in ArgTokens}

\* the strings given to setString through a proxy
StrValues == {<<>>, t5, sSpHi}

\* the ini texts given to parse
IniTexts ==
  { <<"A", " ", "=", " ", "5">>,
    <<"#", "x", "\n", "\n", "[", "S", "]", "\n", "B", "=", "t", "r", "u", "e">>,
    <<"[", "S", "]", "\n", "A", "=", "\t", "5", "=", "5", " ", "\n">>,
    <<"[", "S", "]", "\n", "A">>,
    <<"[", "S", "x", "\n", "A", "=", "h", "i">>,
    <<"[", "S", "]", "\n", "u", "=", "1">> }

\* the paths of ini files
Paths == {t5}

\* the objects a caller hands to setParam
NewObjs(cls) ==
  CASE cls = "bool" -> {NewParam(cls), [NewParam(cls) EXCEPT !.b = TRUE]}
    [] cls = "int" -> {NewParam(cls), [NewParam(cls) EXCEPT !.n = 7]}
    [] cls = "string" -> {NewParam(cls), [NewParam(cls) EXCEPT !.s = sHi]}
    [] cls = "intvec" -> {NewParam(cls), [NewParam(cls) EXCEPT !.v = <<7>>]}

\* the proxies a program that builds its descriptor constructs: S/A and S/a
\* have the same normalised name
DocDecls ==
  {<<"int", sS, kA>>, <<"string", sS, kA>>, <<"intvec", sS, kA>>, <<"File", sS, kA>>,
   <<"bool", sS, <<"a">>>>, <<"EnumInt", sS, kB>>, <<"Double", sS, kB>>,
   <<"int", sS, kB>>}

\* the values given to setValue through a proxy of type T
Values(T) ==
  CASE T = "bool" -> {[NoValue EXCEPT !.b = x] : x \in BOOLEAN}
    [] T = "int" -> {[NoValue EXCEPT !.n = x] : x \in {0, 5}}
    [] T = "string" -> {[NoValue EXCEPT !.s = x] : x \in {<<>>, sHi}}
    [] T = "intvec" -> {[NoValue EXCEPT !.v = x] : x \in {<<>>, <<5, 7>>}}

\* the XMLTAG of the eight CTK_APP_DEFINE_TAG setters
AppTagSetters ==
  {"category", "titel", "description", "version", "documentationUrl", "license",
   "contributor", "acknowledgements"}

\* the tokens and the pairs given to setFlag directly
FlagTokens == {tUnknown}
FlagPairs == {<<sS, kA>>, <<sS, kB>>}

----------------------------------------------------------------------------
(* The state after construction.                                           *)

Init ==
  /\ param = EmptyMap
  /\ commandLineFlags = EmptyMap
  /\ tags = MapPut(MapPut(EmptyMap, "description", <<"d">>), "title", <<"t">>)
  /\ files = EmptyMap
  /\ pc = "idle"
  /\ fault = "none"
  /\ lastOp = "none"
  /\ argv = <<>>
  /\ argc = 0
  /\ argv0 = <<>>
  /\ argv1 = <<>>
  /\ i = 0
  /\ index = 0
  /\ handled = 0
  /\ stream = IStringStream(<<>>)
  /\ list = <<>>
  /\ i2 = 0
  /\ param0 = EmptyMap
  /\ arg = <<>>
  /\ line0 = <<>>
  /\ ret = "void"
  /\ out = <<>>
  /\ err = 0
  /\ nops = 0

cmdVars == <<argv, argc, argv0, argv1, i, index, handled, i2>>
iniVars == <<stream, list, line0>>

\* the caller is between two operations
Idle == pc = "idle" /\ fault = "none" /\ nops < MaxOps

\* what an operation leaves: a registry and no fault, or a fault
Normal(pms) == {[fault |-> "none", pm |-> q] : q \in pms}
Faults(ub, pm) == IF ub THEN {[fault |-> f, pm |-> pm] : f \in UBFaults} ELSE {}

----------------------------------------------------------------------------
(* The operations of the proxies and of the registry.                      *)

Reg == [pm |-> param, fl |-> commandLineFlags]

\* ctkParam<T>(s, k); or ctkParamFile(s, k); and the like
ProxyCtor(d) ==
  /\ Idle
  /\ \E r \in {Construct(Reg, d[1], d[2], d[3])} :
       param' = r.pm /\ commandLineFlags' = r.fl
  /\ lastOp' = "ctkParam"
  /\ nops' = nops + 1
  /\ param0' = param
  /\ UNCHANGED <<tags, files, pc, fault, cmdVars, iniVars, arg, ret, out, err>>

\* ctkParam<T>(s, k).declare(description, shortflag);
ProxyDeclare(d, shortflag) ==
  /\ Idle
  /\ \E r \in {DeclareFlag(Construct(Reg, d[1], d[2], d[3]), d[2], d[3], <<"d">>,
                           shortflag)} :
       param' = r.pm /\ commandLineFlags' = r.fl
  /\ lastOp' = "declare"
  /\ nops' = nops + 1
  /\ param0' = param
  /\ UNCHANGED <<tags, files, pc, fault, cmdVars, iniVars, arg, ret, out, err>>

\* ctkParam<T>(s, k).declare(description, idx);
ProxyDeclareIndex(d, idx) ==
  /\ Idle
  /\ \E r \in {DeclareIndex(Construct(Reg, d[1], d[2], d[3]), d[2], d[3], <<"d">>,
                            idx)} :
       param' = r.pm /\ commandLineFlags' = r.fl
  /\ lastOp' = "declareIndex"
  /\ nops' = nops + 1
  /\ param0' = param
  /\ UNCHANGED <<tags, files, pc, fault, cmdVars, iniVars, arg, ret, out, err>>

\* what setString through the proxy at (sec, key) leaves of the registry r
ProxySet(r, sec, key, value) ==
  Stored(r.pm, sec, key, SetString(r.pm[sec][key], value))

\* ctkParam<T>(s, k).setString(value);
ProxySetString(d, value) ==
  /\ Idle
  /\ \E r \in {Construct(Reg, d[1], d[2], d[3])} :
       /\ commandLineFlags' = r.fl
       /\ \E w \in {ProxySet(r, d[2], d[3], value)} :
            \E o \in Normal(w.pms) \cup Faults(w.ub, w.at) :
              /\ param' = o.pm
              /\ fault' = o.fault
              /\ pc' = IF o.fault = "none" THEN "idle" ELSE "fault"
  /\ lastOp' = "setString"
  /\ nops' = nops + 1
  /\ param0' = param
  /\ arg' = value
  /\ UNCHANGED <<tags, files, cmdVars, iniVars, ret, out, err>>

\* ctkApp.setParam(section, key, p);
SetParamOp(sec, key, p) ==
  /\ Idle
  /\ \E r \in {SetParam(param, sec, key, p)} :
       \E o \in Normal(r.pms) \cup Faults(r.ub, param) :
         /\ param' = o.pm
         /\ fault' = o.fault
         /\ pc' = IF o.fault = "none" THEN "idle" ELSE "fault"
  /\ lastOp' = "setParam"
  /\ nops' = nops + 1
  /\ param0' = param
  /\ UNCHANGED <<commandLineFlags, tags, files, cmdVars, iniVars, arg, ret, out, err>>

\* ctkApp.setFlag(flag, section, key);
SetFlagOp(token, sec, key) ==
  /\ Idle
  /\ commandLineFlags' = SetFlag(commandLineFlags, token, sec, key)
  /\ lastOp' = "setFlag"
  /\ nops' = nops + 1
  /\ param0' = param
  /\ UNCHANGED <<param, tags, files, pc, fault, cmdVars, iniVars, arg, ret, out, err>>

\* ctkParam<T>(s, k).setValue(x); or ctkParam<T>(s, k) = x;
SetValueOp(d, x) ==
  /\ Idle
  /\ \E r \in {Construct(Reg, d[1], d[2], d[3])} :
       /\ commandLineFlags' = r.fl
       /\ \E w \in {Stored(r.pm, d[2], d[3],
                            SetValue(r.pm[d[2]][d[3]], Base(d[1]), x))} :
            \E o \in Normal(w.pms) \cup Faults(w.ub, w.at) :
              /\ param' = o.pm
              /\ fault' = o.fault
              /\ pc' = IF o.fault = "none" THEN "idle" ELSE "fault"
  /\ lastOp' = "setValue"
  /\ nops' = nops + 1
  /\ param0' = param
  /\ arg' = <<d[1], x>>
  /\ UNCHANGED <<tags, files, cmdVars, iniVars, ret, out, err>>

\* T x = ctkParam<T>(s, k).getValue(); or T x = ctkParam<T>(s, k);
GetValueOp(d) ==
  /\ Idle
  /\ \E r \in {Construct(Reg, d[1], d[2], d[3])} :
       /\ commandLineFlags' = r.fl
       /\ param' = r.pm
       /\ \E g \in {GetValue(r.pm[d[2]][d[3]], Base(d[1]))} :
            \/ /\ ret' \in g.vals
               /\ fault' = "none"
               /\ UNCHANGED pc
            \/ /\ g.ub
               /\ ret' = NoValue
               /\ fault' \in UBFaults
               /\ pc' = "fault"
  /\ lastOp' = "getValue"
  /\ nops' = nops + 1
  /\ param0' = param
  /\ arg' = <<d[1], NoValue>>
  /\ UNCHANGED <<tags, files, cmdVars, iniVars, out, err>>

\* ctkParamFile(s, k).setFileExtensions(str);
SetFileExtensionsOp(d, str) ==
  /\ Idle
  /\ \E r \in {Construct(Reg, d[1], d[2], d[3])} :
       /\ commandLineFlags' = r.fl
       /\ param' = PutParam(r.pm, d[2], d[3],
                            [r.pm[d[2]][d[3]] EXCEPT
                               !.attribs = MapPut(r.pm[d[2]][d[3]].attribs,
                                                  "fileExtensions", str)])
  /\ lastOp' = "setFileExtensions"
  /\ nops' = nops + 1
  /\ param0' = param
  /\ UNCHANGED <<tags, files, pc, fault, cmdVars, iniVars, arg, ret, out, err>>

\* ctkParamEnumInt(s, k).setEnumeration(str);
SetEnumerationOp(d, str) ==
  /\ Idle
  /\ \E r \in {Construct(Reg, d[1], d[2], d[3])} :
       /\ commandLineFlags' = r.fl
       /\ param' = PutTag(r.pm, d[2], d[3], "enumeration", str)
  /\ lastOp' = "setEnumeration"
  /\ nops' = nops + 1
  /\ param0' = param
  /\ UNCHANGED <<tags, files, pc, fault, cmdVars, iniVars, arg, ret, out, err>>

\* ctkParamDouble(s, k).setRange(0, 1); toString gives "0", "1" and, for the
\* default step, "0.01"
SetRangeOp(d) ==
  /\ Idle
  /\ \E r \in {Construct(Reg, d[1], d[2], d[3])} :
       /\ commandLineFlags' = r.fl
       /\ param' = PutParam(r.pm, d[2], d[3],
                            [r.pm[d[2]][d[3]] EXCEPT
                               !.constraints =
                                 MapPut(MapPut(MapPut(r.pm[d[2]][d[3]].constraints,
                                                      "minimum", <<"0">>),
                                               "maximum", <<"1">>),
                                        "step", <<"0", ".", "0", "1">>)])
  /\ lastOp' = "setRange"
  /\ nops' = nops + 1
  /\ param0' = param
  /\ UNCHANGED <<tags, files, pc, fault, cmdVars, iniVars, arg, ret, out, err>>

\* ctkApp.setCategory(str); and the seven other setters of the macro
SetAppTagOp(xmltag, str) ==
  /\ Idle
  /\ tags' = MapPut(tags, xmltag, str)
  /\ lastOp' = "setTag"
  /\ nops' = nops + 1
  /\ param0' = param
  /\ UNCHANGED <<param, commandLineFlags, files, pc, fault, cmdVars, iniVars, arg,
                 ret, out, err>>

\* std::string xml = ctkApp.getXMLDescription();
GetXMLDescriptionOp ==
  /\ Idle
  /\ out' = GetXMLDescription(tags, param)
  /\ lastOp' = "getXMLDescription"
  /\ nops' = nops + 1
  /\ param0' = param
  /\ UNCHANGED <<param, commandLineFlags, tags, files, pc, fault, cmdVars, iniVars,
                 arg, ret, err>>

\* std::string man = ctkApp.getSynopsis(); the text it returns is left out,
\* the entries its reads through operator[] create are not
GetSynopsisOp ==
  /\ Idle
  /\ param' = SynopsisParam(param)
  /\ tags' = SynopsisAppTags(tags)
  /\ out' = <<Tok("text", "synopsis", <<>>)>>
  /\ lastOp' = "getSynopsis"
  /\ nops' = nops + 1
  /\ param0' = param
  /\ UNCHANGED <<commandLineFlags, files, pc, fault, cmdVars, iniVars, arg, ret, err>>

----------------------------------------------------------------------------
(* The ini operations.                                                     *)

\* the file system after save(path): the ofstream may fail to open
SaveFiles(fs, pm, path) == {MapPut(fs, path, SaveText(pm)), fs}

\* how load ends for one way parse can end
LoadEnds(o) ==
  IF o.ub THEN {[fault |-> f, pm |-> o.pm, ret |-> "none"] : f \in UBFaults}
  ELSE {[fault |-> "none", pm |-> o.pm, ret |-> "true"]}

\* load(path): what it leaves and returns
LoadOutcomes(pm, fs, path) ==
  IF path \notin DOMAIN fs
  THEN {[fault |-> "none", pm |-> pm, ret |-> "false"]}
  ELSE UNION {LoadEnds(o) : o \in Parse(pm, fs[path])}

\* ctkApp.save(iniFile);
Save(path) ==
  /\ Idle
  /\ files' \in SaveFiles(files, param, path)
  /\ lastOp' = "save"
  /\ nops' = nops + 1
  /\ param0' = param
  /\ arg' = path
  /\ ret' = "void"
  /\ UNCHANGED <<param, commandLineFlags, tags, pc, fault, cmdVars, iniVars, out, err>>

\* ctkApp.load(iniFile);
Load(path) ==
  /\ Idle
  /\ \E o \in LoadOutcomes(param, files, path) :
       /\ param' = o.pm
       /\ fault' = o.fault
       /\ ret' = o.ret
       /\ pc' = IF o.fault = "none" THEN "idle" ELSE "fault"
  /\ lastOp' = "load"
  /\ nops' = nops + 1
  /\ param0' = param
  /\ arg' = path
  /\ UNCHANGED <<commandLineFlags, tags, files, cmdVars, iniVars, out, err>>

\* ctkApp.parse(iniStr): the call, up to the loop
BeginParse(ini) ==
  /\ Idle
  /\ pc' = "parse"
  /\ stream' = IStringStream(ini)
  /\ list' = sGlobal
  /\ line0' = <<>>
  /\ lastOp' = "none"
  /\ nops' = nops + 1
  /\ param0' = param
  /\ arg' = ini
  /\ UNCHANGED <<param, commandLineFlags, tags, files, fault, cmdVars, ret, out, err>>

\* one turn of the loop of parse, or its return
ParseStep ==
  /\ pc = "parse"
  /\ IF stream.eof
     THEN /\ pc' = "idle"
          /\ lastOp' = "parse"
          /\ ret' = "void"
          /\ UNCHANGED <<param, fault, stream, list, line0>>
     ELSE \E g \in {GetLine(stream, <<>>, "\n")} :
            /\ stream' = g.st
            /\ line0' = g.item
            /\ \E r \in {ParseLine(param, list, g.item)} :
                 /\ list' = r.list
                 /\ \E o \in Normal(r.pms) \cup Faults(r.ub, r.at) :
                      /\ param' = o.pm
                      /\ fault' = o.fault
                      /\ pc' = IF o.fault = "none" THEN "parse" ELSE "fault"
            /\ lastOp' = IF pc' = "fault" THEN "parse" ELSE lastOp
            /\ UNCHANGED ret
  /\ UNCHANGED <<commandLineFlags, tags, files, cmdVars, param0, arg, out, err, nops>>

----------------------------------------------------------------------------
(* ctkCmdLineApplication::parseCommandLine.                                *)

\* ctkApp.parseCommandLine(&argc, argv): the call, up to the loop
BeginParseCommandLine(args) ==
  /\ Idle
  /\ pc' = "scan"
  /\ argv' = args
  /\ argv0' = args
  /\ argv1' = args
  /\ argc' = Len(args)
  /\ i' = 0
  /\ index' = 0
  /\ handled' = 0
  /\ i2' = 0
  /\ lastOp' = "none"
  /\ nops' = nops + 1
  /\ param0' = param
  /\ UNCHANGED <<param, commandLineFlags, tags, files, fault, iniVars, arg, ret, out, err>>

\* what one turn of the scanning loop starts from
Here ==
  [pm |-> param, tg |-> tags, fs |-> files, av |-> argv, i |-> i, out |-> out,
   err |-> err, pc |-> "scan", fault |-> "none"]

\* argv[i] = 0x0
MarkHandled(o) == [o EXCEPT !.av[o.i + 1] = NullPtr]

\* the process leaves defined behaviour
Crash(o) == {[o EXCEPT !.pc = "fault", !.fault = f] : f \in UBFaults}

\* the break with the token marked as handled before the end is noticed
BreakMarked(o) == {[MarkHandled(o) EXCEPT !.err = o.err + 2, !.pc = "compact"]}

\* lines 294-296 and 311-313: the two lines on std::cerr, and the break
Break(o) == {[o EXCEPT !.err = o.err + 2, !.pc = "compact"]}

\* line 329 for every object the conversion can leave, and line 333
Assigned(o, sk, r) ==
  {[o EXCEPT !.pm = PutParam(o.pm, sk[1], sk[2], q), !.i = o.i + 1] : q \in r.objs}
  \cup (IF r.ub THEN Crash(o) ELSE {})

\* line 327: p->setString(toString(!stringTo<bool>(p->getString())))
Toggled(p) ==
  UNION {SetString(p, BoolToString(~x)).objs : x \in StringToBool(GetString(p))}

\* lines 326-329 and 333 for the pair sk the token is bound to; o.pm holds
\* the entry line 325 read
Assign(o, sk) ==
  IF o.pm[sk[1]][sk[2]] = NullParam THEN Crash(o)
  ELSE IF GetType(o.pm[sk[1]][sk[2]]) = TypeName("bool")
  THEN {[o EXCEPT !.pm = PutParam(o.pm, sk[1], sk[2], q), !.i = o.i + 1] :
          q \in Toggled(o.pm[sk[1]][sk[2]])}
  ELSE IF o.av[o.i + 1] = NullPtr THEN Crash(o)
  ELSE Assigned(o, sk, SetString(o.pm[sk[1]][sk[2]], o.av[o.i + 1]))

\* lines 322-333 for the lookup token cmd
Dispatch(o, cmd) ==
  IF cmd \in DOMAIN commandLineFlags
  THEN Assign([o EXCEPT !.pm = Lookup(o.pm, commandLineFlags[cmd])],
              commandLineFlags[cmd])
  ELSE {[o EXCEPT !.err = o.err + (IF cmd[1] = "-" THEN 1 ELSE 0), !.i = o.i + 1]}

\* lines 298-303: save or load with the token after cmd as the path
SaveOrLoad(o, cmd, path) ==
  IF cmd[7] = "s"
  THEN {[MarkHandled(o) EXCEPT !.fs = f, !.i = o.i + 2] :
          f \in SaveFiles(o.fs, o.pm, path)}
  ELSE {[MarkHandled(o) EXCEPT !.pm = e.pm, !.fault = e.fault,
                               !.i = IF e.fault = "none" THEN o.i + 2 ELSE o.i + 1,
                               !.pc = IF e.fault = "none" THEN "scan" ELSE "fault"] :
          e \in LoadOutcomes(o.pm, o.fs, path)}

\* one turn of the scanning loop for the token cmd: what it can leave
Scan(o, cmd) ==
  IF cmd = tXml
  THEN {[MarkHandled(o) EXCEPT !.out = Append(o.out, "xml"), !.i = o.i + 1]}
  ELSE IF cmd = tHelp \/ cmd = tH
  THEN {[MarkHandled(o) EXCEPT !.out = Append(o.out, "synopsis"),
                               !.pm = SynopsisParam(o.pm),
                               !.tg = SynopsisAppTags(o.tg), !.i = o.i + 1]}
  ELSE IF cmd = tSaveIni \/ cmd = tLoadIni
  THEN IF o.i = argc - 1 THEN Break(o) ELSE SaveOrLoad(o, cmd, o.av[o.i + 2])
  ELSE IF cmd[1] = "-"
  THEN IF o.i = argc - 1 THEN Break(o) ELSE Dispatch(MarkHandled(o), cmd)
  ELSE Dispatch(o, IntToString(index))

ScanToken == Scan(Here, argv[i + 1])

\* the scanning loop: one turn, or its end
ScanStep ==
  /\ pc = "scan"
  /\ IF i >= argc
     THEN /\ pc' = "compact"
          /\ argv1' = argv
          /\ UNCHANGED <<param, tags, files, argv, i, index, out, err, fault>>
     ELSE /\ \E o \in ScanToken :
               /\ param' = o.pm
               /\ tags' = o.tg
               /\ files' = o.fs
               /\ argv' = o.av
               /\ argv1' = o.av
               /\ i' = o.i
               /\ out' = o.out
               /\ err' = o.err
               /\ pc' = o.pc
               /\ fault' = o.fault
          /\ index' = IF argv[i + 1][1] = "-" THEN index ELSE index + 1
  /\ lastOp' = IF pc' = "fault" THEN "parseCommandLine" ELSE lastOp
  /\ UNCHANGED <<commandLineFlags, argc, argv0, handled, i2, iniVars, param0, arg,
                 ret, nops>>

\* argv[n], n counted from 0, as the compaction loop reads it: argv[argc] is
\* the null pointer that ends the array of main, and what lies beyond it is
\* whatever the memory holds
ReadArgv(n) ==
  IF n < argc THEN {argv[n + 1]}
  ELSE IF n = argc THEN {NullPtr}
  ELSE {GarbagePtr, FaultRead} \cup (IF n - argc <= MaxOverrun THEN {NullPtr} ELSE {})

\* the compaction loop: one turn, or its end and the return
CompactStep ==
  /\ pc = "compact"
  /\ IF i2 >= argc
     THEN /\ pc' = "idle"
          /\ lastOp' = "parseCommandLine"
          /\ ret' = "void"
          /\ UNCHANGED <<argv, handled, i2, fault>>
     ELSE IF argv[i2 + 1] = NullPtr
     THEN /\ handled' = handled + 1
          /\ \E x \in ReadArgv(i2 + handled + 1) :
               IF x = FaultRead
               THEN /\ fault' \in UBFaults
                    /\ pc' = "fault"
                    /\ lastOp' = "parseCommandLine"
                    /\ UNCHANGED argv
               ELSE /\ argv' = [argv EXCEPT ![i2 + 1] = x]
                    /\ UNCHANGED <<pc, fault, lastOp>>
          /\ UNCHANGED <<i2, ret>>
     ELSE /\ i2' = i2 + 1
          /\ UNCHANGED <<argv, handled, pc, fault, lastOp, ret>>
  /\ UNCHANGED <<param, commandLineFlags, tags, files, argc, argv0, argv1, i, index,
                 iniVars, param0, arg, out, err, nops>>

----------------------------------------------------------------------------

Next ==
  \/ \E d \in Decls : ProxyCtor(d)
  \/ \E d \in Decls : ProxyDeclare(d, <<"b">>)
  \/ \E d \in Decls : ProxyDeclareIndex(d, 0)
  \/ \E d \in Decls, value \in StrValues : ProxySetString(d, value)
  \/ \E d \in Decls : \E p \in NewObjs(d[1]) : SetParamOp(d[2], d[3], p)
  \/ \E t \in FlagTokens, sk \in FlagPairs : SetFlagOp(t, sk[1], sk[2])
  \/ \E path \in Paths : Save(path)
  \/ \E path \in Paths : Load(path)
  \/ \E ini \in IniTexts : BeginParse(ini)
  \/ ParseStep

\* the registry and its ini files, from the construction of the application
Spec == Init /\ [][Next]_vars

NextDoc ==
  \/ \E d \in DocDecls : ProxyCtor(d)
  \/ \E d \in DocDecls : ProxyDeclare(d, <<"b">>)
  \/ \E d \in DocDecls : ProxyDeclareIndex(d, 0)
  \/ \E d \in DocDecls : \E x \in Values(Base(d[1])) : SetValueOp(d, x)
  \/ \E d \in DocDecls : GetValueOp(d)
  \/ \E d \in {e \in DocDecls : e[1] = "File"} : SetFileExtensionsOp(d, <<"b", "l", "i", ",", "b", "l", "a">>)
  \/ \E d \in {e \in DocDecls : e[1] = "EnumInt"} :
       \E str \in {<<"1", ",", "2">>, <<"1", ",", "2", ",">>} :
         SetEnumerationOp(d, str)
  \/ \E d \in {e \in DocDecls : e[1] = "Double"} : SetRangeOp(d)
  \/ \E k \in AppTagSetters : SetAppTagOp(k, <<"v">>)
  \/ GetXMLDescriptionOp
  \/ GetSynopsisOp

\* the typed proxies, the application tags, the descriptor and the synopsis,
\* from the construction of the application
SpecDoc == Init /\ [][NextDoc]_vars

----------------------------------------------------------------------------
(* The command line: a host program has made its declarations, as main     *)
(* does, and calls parseCommandLine once.                                  *)

NoReg == [pm |-> EmptyMap, fl |-> EmptyMap]

\* the registry r after setString(str) through the proxy d, for a str that
\* is parsed
StoredString(r, d, str) ==
  [pm |-> CHOOSE q \in ProxySet(r, d[2], d[3], str).pms : TRUE, fl |-> r.fl]

\* reg after ctkParam<T>(s, k).setString(str)
WithString(reg, d, str) == StoredString(Proxy(reg, d[1], d[2], d[3]), d, str)

\* a boolean with the short flag -b and an integer with its long flag
RegFlags(b) ==
  Proxy(DeclareFlag(WithString(NoReg, <<"bool", sS, kB>>, BoolToString(b)),
                    sS, kB, <<"d">>, <<"b">>),
        "int", sS, kA)

\* a string at index 0, a boolean at index 1 with the short flag -b
RegIndexed(b) ==
  DeclareIndex(
    DeclareFlag(
      WithString(DeclareIndex(Proxy(NoReg, "string", sS, kA), sS, kA, <<"d">>, 0),
                 <<"bool", sS, kB>>, BoolToString(b)),
      sS, kB, <<"d">>, <<"b">>),
    sS, kB, <<"d">>, 1)

\* a boolean at index 0 and a string with its long flag
RegBoolFirst(b) ==
  Proxy(DeclareIndex(WithString(NoReg, <<"bool", sS, kB>>, BoolToString(b)),
                     sS, kB, <<"d">>, 0),
        "string", sS, kA)

\* an integer vector at index 0 with its long flag
RegVector == DeclareIndex(Proxy(NoReg, "intvec", sS, kA), sS, kA, <<"d">>, 0)

\* a flag set for a parameter that was never declared
RegDangling == [pm |-> EmptyMap, fl |-> SetFlag(EmptyMap, tUnknown, sS, kA)]

\* an ini file that sets S/A, and one that names a parameter nobody declared
IniSetsA == <<"[", "S", "]", "\n", "A", " ", "=", " ", "7", "\n">>
IniUnknownKey == <<"u", "=", "1">>

\* the host programs of the model: the registry after the declarations and
\* the ini files the program finds
Hosts ==
  {[reg |-> r, fs |-> EmptyMap] :
     r \in {NoReg, RegVector, RegDangling, RegFlags(TRUE), RegFlags(FALSE),
            RegIndexed(FALSE), RegBoolFirst(TRUE)}}
  \cup {[reg |-> r, fs |-> MapPut(EmptyMap, t5, IniSetsA)] :
          r \in {RegFlags(TRUE), RegIndexed(FALSE)}}
  \cup {[reg |-> RegFlags(FALSE), fs |-> MapPut(EmptyMap, t5, IniUnknownKey)]}

InitCmd ==
  /\ \E h \in Hosts :
       param = h.reg.pm /\ commandLineFlags = h.reg.fl /\ files = h.fs
  /\ tags = MapPut(MapPut(EmptyMap, "description", <<"d">>), "title", <<"t">>)
  /\ pc = "idle"
  /\ fault = "none"
  /\ lastOp = "none"
  /\ argv = <<>>
  /\ argc = 0
  /\ argv0 = <<>>
  /\ argv1 = <<>>
  /\ i = 0
  /\ index = 0
  /\ handled = 0
  /\ stream = IStringStream(<<>>)
  /\ list = <<>>
  /\ i2 = 0
  /\ param0 = param
  /\ arg = <<>>
  /\ line0 = <<>>
  /\ ret = "void"
  /\ out = <<>>
  /\ err = 0
  /\ nops = MaxOps - 1

NextCmd ==
  \/ \E args \in ArgArrays(MaxArgs) : BeginParseCommandLine(args)
  \/ ScanStep
  \/ CompactStep

\* one call of parseCommandLine by each host program
SpecCmd == InitCmd /\ [][NextCmd]_vars

----------------------------------------------------------------------------
(* The conversions of StringUtil.hxx on their own: a value of one of the   *)
(* types goes through toString and stringTo, a text through                *)
(* stringTo<std::vector<int> >.                                            *)

\* what is converted: [t, x], x a value of the type t, or a text to parse as
\* a vector of ints
ConvInputs ==
  LET Seqs(S, n) == UNION {[1..k -> S] : k \in 0..n}
  IN {[t |-> "bool", x |-> [NoValue EXCEPT !.b = y]] : y \in BOOLEAN}
     \cup {[t |-> "int", x |-> [NoValue EXCEPT !.n = y]] : y \in -12..12}
     \cup {[t |-> "string", x |-> [NoValue EXCEPT !.s = y]] :
             y \in Seqs({"a", ",", " "}, 2)}
     \cup {[t |-> "intvec", x |-> [NoValue EXCEPT !.v = y]] :
             y \in Seqs({-1, 0, 12}, 2)}
     \cup {[t |-> "strvec", x |-> [NoValue EXCEPT !.w = y]] :
             y \in Seqs({<<>>, <<"a">>, <<",">>}, 2)}
     \cup {[t |-> "text", x |-> [NoValue EXCEPT !.s = y]] :
             y \in Seqs({"1", ","}, 4)
                   \cup {<<"1", ",", "2", ",", "3", ",", "4">>,
                         <<"1", ",", "2", ",", "3", ",">>}}

InitConv ==
  /\ arg \in ConvInputs
  /\ ret = NoValue
  /\ param = EmptyMap
  /\ commandLineFlags = EmptyMap
  /\ tags = MapPut(MapPut(EmptyMap, "description", <<"d">>), "title", <<"t">>)
  /\ files = EmptyMap
  /\ pc = "idle"
  /\ fault = "none"
  /\ lastOp = "none"
  /\ argv = <<>>
  /\ argc = 0
  /\ argv0 = <<>>
  /\ argv1 = <<>>
  /\ i = 0
  /\ index = 0
  /\ handled = 0
  /\ stream = IStringStream(<<>>)
  /\ list = <<>>
  /\ i2 = 0
  /\ param0 = EmptyMap
  /\ line0 = <<>>
  /\ out = <<>>
  /\ err = 0
  /\ nops = MaxOps - 1

\* T y = stringTo<T>(toString(x));
RoundTripOp ==
  /\ Idle
  /\ arg.t # "text"
  /\ \E g \in {StringTo(arg.t, GetString(Holding(arg.t, arg.x)))} :
       \/ /\ ret' \in g.vals
          /\ fault' = "none"
          /\ UNCHANGED pc
       \/ /\ g.ub
          /\ ret' = NoValue
          /\ fault' \in UBFaults
          /\ pc' = "fault"
  /\ lastOp' = "roundTrip"
  /\ nops' = nops + 1
  /\ UNCHANGED <<param, commandLineFlags, tags, files, cmdVars, iniVars, param0,
                 arg, out, err>>

\* std::vector<int> y = stringTo<std::vector<int> >(text);
StringToVectorOp ==
  /\ Idle
  /\ arg.t = "text"
  /\ \E g \in {StringTo("intvec", arg.x.s)} :
       \/ /\ ret' \in g.vals
          /\ fault' = "none"
          /\ UNCHANGED pc
       \/ /\ g.ub
          /\ ret' = NoValue
          /\ fault' \in UBFaults
          /\ pc' = "fault"
  /\ lastOp' = "stringTo"
  /\ nops' = nops + 1
  /\ UNCHANGED <<param, commandLineFlags, tags, files, cmdVars, iniVars, param0,
                 arg, out, err>>

NextConv == RoundTripOp \/ StringToVectorOp

\* one conversion of each value and of each text
SpecConv == InitConv /\ [][NextConv]_vars

----------------------------------------------------------------------------
(* What parseCommandLine is said to do, under SpecCmd.  param0 and argv0   *)
(* are the registry and the array at the call, argv1 is the array as the   *)
(* scanning loop left it.                                                  *)

\* the parameter at the pair sk of a registry
At(pm, sk) == GetParam(pm, sk[1], sk[2])

\* the strings setString(str) can leave the parameter p with
StringsAfter(p, str) == {GetString(q) : q \in SetString(p, str).objs}

\* C1: over an array <<F, v>>, F a flag token bound to a declared parameter
\* that is not boolean and v a token that is no flag, parseCommandLine returns
\* and leaves the parameter with the canonical form of v as its string.
C1_FlagAssignsValue ==
  \A F \in DOMAIN commandLineFlags :
    ( /\ lastOp = "parseCommandLine"
      /\ Len(argv0) = 2
      /\ argv0[1] = F
      /\ F[1] = "-"
      /\ argv0[2][1] # "-"
      /\ At(param0, commandLineFlags[F]) # NullParam
      /\ At(param0, commandLineFlags[F]).cls # "bool" )
    => /\ fault = "none"
       /\ GetString(At(param, commandLineFlags[F]))
            \in StringsAfter(At(param0, commandLineFlags[F]), argv0[2])

\* C2: over the array that holds only the flag token -b, bound to a boolean
\* parameter that is true, parseCommandLine returns and the parameter is
\* false.
C2_BooleanFlagToggles ==
  ( /\ lastOp = "parseCommandLine"
    /\ argv0 = <<tShortB>>
    /\ tShortB \in DOMAIN commandLineFlags
    /\ At(param0, commandLineFlags[tShortB]).cls = "bool"
    /\ At(param0, commandLineFlags[tShortB]).b )
  => /\ fault = "none"
     /\ ~At(param, commandLineFlags[tShortB]).b

IsToken(x) == x # NullPtr

\* the tokens the scanning loop did not mark, in their order
Unmarked == SelectSeq(argv1, IsToken)

\* C3: when parseCommandLine has returned, the caller's count is the number
\* of tokens the scan did not mark as consumed, and the caller's array holds
\* exactly those tokens, in their order, at the positions below the count.
C3_CompactionLeavesUnconsumed ==
  (lastOp = "parseCommandLine" /\ fault = "none")
  => /\ argc = Len(Unmarked)
     /\ SubSeq(argv, 1, Len(Unmarked)) = Unmarked

\* C4: over the array <<-u, 5>>, -u bound to nothing, parseCommandLine writes
\* a diagnostic, changes no parameter through -u, and returns with -u and 5
\* still in the array, in that order.
C4_UnknownFlagStays ==
  ( /\ lastOp = "parseCommandLine"
    /\ fault = "none"
    /\ argv0 = <<tUnknown, t5>>
    /\ tUnknown \notin DOMAIN commandLineFlags )
  => /\ err > 0
     /\ (IntToString(0) \notin DOMAIN commandLineFlags => param = param0)
     /\ \E a \in 1..Len(argv) : \E b \in (a + 1)..Len(argv) :
          argv[a] = tUnknown /\ argv[b] = t5

\* a flag token other than --xml, --help and -h
NeedsValue(t) == t[1] = "-" /\ t \notin {tXml, tHelp, tH}

\* C5: the turn of the scanning loop that meets a flag token other than
\* --xml, --help and -h at the last position writes a diagnostic and ends the
\* scan without a fault; it changes no parameter and no file and marks no
\* token, and what the earlier tokens did to the parameters and the files
\* stays as it is until parseCommandLine returns.
C5_MissingValueEndsScan ==
  [][ /\ (pc = "scan" /\ i = argc - 1 /\ NeedsValue(argv[i + 1]))
         => /\ pc' = "compact"
            /\ fault' = "none"
            /\ err' > err
            /\ param' = param
            /\ files' = files
            /\ argv' = argv
      /\ pc = "compact" => (param' = param /\ files' = files) ]_vars

\* C5 happens: the scan was ended by a flag at the last position, after an
\* earlier token had changed a parameter
C5_Witness ==
  /\ pc = "compact"
  /\ argc > 1
  /\ i = argc - 1
  /\ NeedsValue(argv1[argc])
  /\ err >= 2
  /\ param # param0

\* the flag tokens that take the token after them as their value or path
ValueTaking(t) ==
  \/ t \in {tSaveIni, tLoadIni}
  \/ /\ t[1] = "-"
     /\ t \in DOMAIN commandLineFlags
     /\ At(param0, commandLineFlags[t]) # NullParam
     /\ At(param0, commandLineFlags[t]).cls # "bool"

\* token j of argv0 is the value or the path of the flag before it
RECURSIVE IsValue(_)
IsValue(j) == j > 1 /\ ValueTaking(argv0[j - 1]) /\ ~IsValue(j - 1)

\* token j of argv0 is a bare token, and the lookup token it is numbered with
IsBare(j) == argv0[j][1] # "-" /\ ~IsValue(j)
PositionalToken(j) == IntToString(Cardinality({k \in 1..(j - 1) : IsBare(k)}))

\* token j of argv0 reaches the parameter at sk
Reaches(j, sk) ==
  \/ /\ ~IsValue(j)
     /\ argv0[j] \in DOMAIN commandLineFlags
     /\ commandLineFlags[argv0[j]] = sk
  \/ /\ IsBare(j)
     /\ PositionalToken(j) \in DOMAIN commandLineFlags
     /\ commandLineFlags[PositionalToken(j)] = sk

\* argv0 holds bare tokens and flags of declared parameters with their values
PlainArray ==
  \A j \in 1..Len(argv0) :
    \/ IsBare(j)
    \/ IsValue(j)
    \/ (ValueTaking(argv0[j]) /\ argv0[j] \notin {tSaveIni, tLoadIni}
        /\ j < Len(argv0))

\* C6: over an array of bare tokens and of value-taking flags with their
\* values, parseCommandLine returns; the bare tokens are numbered 0, 1, 2, ...
\* in their order, values not counted; the parameter bound to the number of a
\* bare token (and reached by no other token) has the canonical form of that
\* token as its string; and when no number is bound, no parameter has changed
\* and there is no diagnostic.
C6_BareTokensByNumber ==
  (lastOp = "parseCommandLine" /\ PlainArray)
  => /\ fault = "none"
     /\ \A j \in 1..Len(argv0) :
          ( /\ IsBare(j)
            /\ PositionalToken(j) \in DOMAIN commandLineFlags
            /\ At(param0, commandLineFlags[PositionalToken(j)]) # NullParam
            /\ \A k \in 1..Len(argv0) \ {j} :
                 ~Reaches(k, commandLineFlags[PositionalToken(j)]) )
          => GetString(At(param, commandLineFlags[PositionalToken(j)]))
               \in StringsAfter(At(param0, commandLineFlags[PositionalToken(j)]),
                                argv0[j])
     /\ (\A j \in 1..Len(argv0) :
           IsBare(j) /\ PositionalToken(j) \notin DOMAIN commandLineFlags)
        => (param = param0 /\ err = 0)

----------------------------------------------------------------------------
(* What the ini operations and setParam are said to do, under Spec.        *)

\* C7: load of a file that save wrote from a registry with the declarations
\* and the values of the loading one returns true and leaves every parameter
\* with the string it was saved with.
C7_IniRoundTrip ==
  (lastOp = "load" /\ arg \in DOMAIN files /\ files[arg] = SaveText(param0))
  => /\ fault = "none"
     /\ ret = "true"
     /\ \A sec \in DOMAIN param0 : \A key \in DOMAIN param0[sec] :
          /\ HasParam(param, sec, key)
          /\ GetString(param[sec][key]) = GetString(param0[sec][key])

Blank(c) == c \in {" ", "\t"}

\* the pieces of a string
Pieces(s) == {SubSeq(s, a, b) : a \in 1..(Len(s) + 1), b \in 0..Len(s)}

\* t is s without the spaces and tabs around it
IsStripped(t, s) ==
  \E a \in 0..Len(s) : \E b \in a..Len(s) :
    /\ t = SubSeq(s, a + 1, b)
    /\ \A k \in 1..a : Blank(s[k])
    /\ \A k \in (b + 1)..Len(s) : Blank(s[k])
    /\ t # <<>> => (~Blank(t[1]) /\ ~Blank(t[Len(t)]))

Stripped(s) == CHOOSE t \in Pieces(s) : IsStripped(t, s)

\* the place of the first '=' of a line, one past its end when it has none
FirstEq(line) ==
  CHOOSE n \in 1..(Len(line) + 1) :
    /\ \A k \in 1..(n - 1) : line[k] # "="
    /\ n <= Len(line) => line[n] = "="

\* line is the first line of the stream st, and st2 is what follows it
NextLine(st, line, st2) ==
  \E n \in 0..Len(st.buf) :
    /\ line = SubSeq(st.buf, 1, n)
    /\ \A k \in 1..n : st.buf[k] # "\n"
    /\ IF n < Len(st.buf)
       THEN st.buf[n + 1] = "\n" /\ st2.buf = SubSeq(st.buf, n + 2, Len(st.buf))
            /\ ~st2.eof
       ELSE st2.eof

\* the step applies value to the declared parameter at (list, key) and
\* leaves every other parameter as it is
Applies(key, value) ==
  HasParam(param, list, key)
  => /\ list' = list
     /\ fault' = "none"
          => \E q \in SetString(param[list][key], value).objs :
               param' = [param EXCEPT ![list][key] = q]
     /\ fault' # "none" => SetString(param[list][key], value).ub

\* the step handles line as stated, a line being skipped when skipped and
\* being a section header when header
HandlesLine(line, skipped, header) ==
  IF skipped THEN param' = param /\ list' = list /\ fault' = "none"
  ELSE IF header
  THEN list' = SubSeq(line, 2, Len(line) - 1) /\ param' = param /\ fault' = "none"
  ELSE Applies(Stripped(SubSeq(line, 1, FirstEq(line) - 1)),
               Stripped(SubSeq(line, FirstEq(line) + 1, Len(line))))

C9_NoOperationCrashes ==
  lastOp \in {"parseCommandLine", "parse", "load", "save"} => fault = "none"

Digits(s) ==
  /\ s # <<>>
  /\ \A k \in 1..Len(s) : IsDigit(s[k])
  /\ Len(s) > 1 => s[1] # "0"

\* s is what toString gives for some int
IsInt(s) == Digits(s) \/ (s # <<>> /\ s[1] = "-" /\ Digits(Tail(s)) /\ Tail(s) # <<"0">>)

\* s is what toString gives for some vector of ints that is not empty
IsIntVector(s) ==
  /\ s # <<>>
  /\ \A a \in 1..Len(s) : \A b \in a..Len(s) :
       ( /\ a = 1 \/ s[a - 1] = ","
         /\ b = Len(s) \/ s[b + 1] = ","
         /\ \A k \in a..b : s[k] # "," )
       => IsInt(SubSeq(s, a, b))
  /\ s[1] # "," /\ s[Len(s)] # ","
  /\ \A k \in 1..(Len(s) - 1) : ~(s[k] = "," /\ s[k + 1] = ",")

\* the type of the class cls can parse s: s is a string form of the type
CanParse(cls, s) ==
  CASE cls = "string" -> TRUE
    [] cls = "bool" -> s \in {sTrue, sFalse}
    [] cls = "int" -> IsInt(s)
    [] cls = "intvec" -> IsIntVector(s)

\* the string form of the parameter at (sec, key), "" when there is none
OldString(sec, key) ==
  IF HasParam(param, sec, key) THEN GetString(param[sec][key]) ELSE <<>>

KeysOf(pm, sec) == IF sec \in DOMAIN pm THEN DOMAIN pm[sec] ELSE {}

\* what setParam(sec, key, p) is said to leave
SetParamLeaves(sec, key, p) ==
  /\ fault' = "none"
  /\ HasParam(param', sec, key)
  /\ [param'[sec][key] EXCEPT !.b = p.b, !.n = p.n, !.s = p.s, !.v = p.v,
                               !.w = p.w] = p
  /\ IF OldString(sec, key) # <<>>
     THEN CanParse(p.cls, OldString(sec, key))
          => GetString(param'[sec][key]) = OldString(sec, key)
     ELSE param'[sec][key] = p
  /\ \A sec2 \in DOMAIN param \cup DOMAIN param' :
       \A key2 \in KeysOf(param, sec2) \cup KeysOf(param', sec2) :
         <<sec2, key2>> # <<sec, key>>
         => /\ HasParam(param, sec2, key2)
            /\ HasParam(param', sec2, key2)
            /\ param'[sec2][key2] = param[sec2][key2]

----------------------------------------------------------------------------
(* What the proxies, the descriptor and the synopsis are said to do, under *)
(* SpecDoc.                                                                *)

\* the map m2 holds every entry of m1
Extends(m2, m1) == \A k \in DOMAIN m1 : k \in DOMAIN m2 /\ m2[k] = m1[k]

\* what the construction of the proxy d is said to leave
ProxyLeaves(d) ==
  /\ fault' = "none"
  /\ HasParam(param', d[2], d[3])
  /\ IF HasParam(param, d[2], d[3])
     THEN /\ GetType(param'[d[2]][d[3]]) = GetType(param[d[2]][d[3]])
          /\ param'[d[2]][d[3]].cls = param[d[2]][d[3]].cls
          /\ Payload(param'[d[2]][d[3]]) = Payload(param[d[2]][d[3]])
          /\ Extends(param'[d[2]][d[3]].tags, param[d[2]][d[3]].tags)
          /\ Extends(param'[d[2]][d[3]].attribs, param[d[2]][d[3]].attribs)
          /\ Extends(param'[d[2]][d[3]].constraints, param[d[2]][d[3]].constraints)
     ELSE /\ param'[d[2]][d[3]].cls = d[1]
          /\ GetType(param'[d[2]][d[3]]) = TypeName(d[1])

\* C11: the construction of a proxy for a pair that has no parameter creates
\* one of the type of the proxy; the construction of a proxy of any type for
\* a pair that has a parameter leaves the type and the value of the
\* parameter as they are and keeps every entry of its tags, attribs and
\* constraints.
C11_TypeFixedAtFirstDeclaration ==
  [][ \A d \in DocDecls : ProxyCtor(d) => ProxyLeaves(d) ]_vars

\* C11 happens: S/B was created by a ctkParamEnumInt and holds 5; a ctkParam<T>
\* has been constructed for it since (it wrote the tag "name") and S/B is
\* still an integer-enumeration that holds 5
C11_Witness ==
  /\ lastOp = "ctkParam"
  /\ HasParam(param0, sS, kB)
  /\ param0[sS][kB].cls = "EnumInt"
  /\ param0[sS][kB].n = 5
  /\ "name" \notin DOMAIN param0[sS][kB].tags
  /\ param[sS][kB].cls = "EnumInt"
  /\ param[sS][kB].n = 5
  /\ "name" \in DOMAIN param[sS][kB].tags

\* the long flag derived from a pair
LongFlag(sec, key) == <<"-", "-">> \o GetNormName(sec, key)

\* C12: every parameter of the registry is bound by its derived long flag,
\* "--" and the normalised section-key, to its own pair.
C12_LongFlagBindsOwnPair ==
  \A sec \in DOMAIN param : \A key \in DOMAIN param[sec] :
    /\ LongFlag(sec, key) \in DOMAIN commandLineFlags
    /\ commandLineFlags[LongFlag(sec, key)] = <<sec, key>>

\* the object the proxy d finds once it is constructed
StoredFor(d) == Construct(Reg, d[1], d[2], d[3]).pm[d[2]][d[3]]

\* what setValue(x) through the proxy d is said to leave
SetValueLeaves(d, x) ==
  /\ fault' = "none"
  /\ HasParam(param', d[2], d[3])
  /\ param'[d[2]][d[3]].cls = StoredFor(d).cls
  /\ IF StoredFor(d).cls = Base(d[1])
     THEN GetValue(param'[d[2]][d[3]], Base(d[1])) = [ub |-> FALSE, vals |-> {x}]
     ELSE param'[d[2]][d[3]]
            \in SetString(StoredFor(d), GetString(Holding(Base(d[1]), x))).objs

\* what getValue() through the proxy d is said to return
GetValueLeaves(d) ==
  /\ fault' = "none"
  /\ param'[d[2]][d[3]] = StoredFor(d)
  /\ ret' \in IF StoredFor(d).cls = Base(d[1]) THEN {Payload(StoredFor(d))}
              ELSE StringTo(Base(d[1]), GetString(StoredFor(d))).vals

\* C13: through a proxy whose type is the type of the stored object,
\* setValue(v) writes the value, so that getValue returns v, and getValue
\* reads it; through any other proxy setValue(v) is setString(toString(v))
\* on the stored object and getValue returns stringTo<T> of its getString();
\* either way the call returns and the stored object keeps its type.
C13_TypedAccess ==
  [][ \A d \in DocDecls :
        /\ (lastOp' = "getValue" /\ GetValueOp(d)) => GetValueLeaves(d)
        /\ \A x \in Values(Base(d[1])) :
             (lastOp' = "setValue" /\ SetValueOp(d, x)) => SetValueLeaves(d, x) ]_vars

----------------------------------------------------------------------------
(* What the descriptor is said to hold, under SpecDoc.                     *)

\* the tokens of the descriptor t from its n-th on, up to the first that
\* opens or closes an element
LeavesFrom(t, n) ==
  LET Stops == {m \in n..Len(t) : t[m].kind \in {"open", "close"}}
      stop == IF Stops = {} THEN Len(t) + 1
              ELSE CHOOSE m \in Stops : \A m2 \in Stops : m <= m2
  IN SubSeq(t, n, stop - 1)

\* the key of tags that the set* accessor of the descriptor tag k writes
AccessorTag(k) ==
  CASE k = "title" -> "titel"
    [] k = "documentation-url" -> "documentationUrl"
    [] OTHER -> k

\* the value the application was given for the descriptor tag k, <<>> when
\* neither the constructor nor the accessor has set it
AppTagSet(k) ==
  IF AccessorTag(k) \in DOMAIN tags THEN <<tags[AccessorTag(k)]>>
  ELSE IF k \in DOMAIN tags THEN <<tags[k]>>
  ELSE <<>>

\* C16: the descriptor holds, right under the root and in the order category,
\* title, description, version, documentation-url, license, contributor,
\* acknowledgements, one element with its value for each of these tags that
\* the constructor or its set* accessor has set, and none for the others.
C16_AppTagsInFixedOrder ==
  (lastOp = "getXMLDescription" /\ \A k \in DOMAIN tags : tags[k] # <<>>)
  => LeavesFrom(out, 3)
     = Concat([n \in 1..8 |->
                 LET k == <<"category", "title", "description", "version",
                            "documentation-url", "license", "contributor",
                            "acknowledgements">>[n]
                 IN IF AppTagSet(k) = <<>> THEN <<>>
                    ELSE <<Tok("leaf", k, AppTagSet(k)[1])>>])

\* the pieces of the text s between its commas, one comma at the end
\* counting as none
RECURSIVE CommaSplit(_)
CommaSplit(s) ==
  LET Commas == {n \in 1..Len(s) : s[n] = ","}
      first == CHOOSE n \in Commas : \A m \in Commas : n <= m
  IN IF Commas = {} THEN <<s>>
     ELSE IF first = Len(s) THEN <<SubSeq(s, 1, Len(s) - 1)>>
     ELSE <<SubSeq(s, 1, first - 1)>> \o CommaSplit(SubSeq(s, first + 1, Len(s)))

\* the entries of the map m that are not empty, in the order of their names
NonEmptyEntries(m) ==
  SelectSeq(<<"description", "enumeration", "fileExtensions", "flag", "index",
              "longflag", "maximum", "minimum", "name", "step">>,
            LAMBDA k : k \in DOMAIN m /\ m[k] # <<>>)

\* the element the descriptor is said to hold for the parameter p at key
ParamElement(key, p) ==
  LET attrs == NonEmptyEntries(p.attribs)
      tgs == NonEmptyEntries(p.tags)
      Child(k) ==
        IF k = "enumeration"
        THEN <<Tok("open", "enumeration", <<>>)>>
             \o [n \in 1..Len(CommaSplit(p.tags[k])) |->
                   Tok("leaf", "element", CommaSplit(p.tags[k])[n])]
             \o <<Tok("close", "enumeration", <<>>)>>
        ELSE <<Tok("leaf", k, p.tags[k])>>
      cons == SelectSeq(<<"maximum", "minimum", "step">>,
                        LAMBDA k : k \in DOMAIN p.constraints)
  IN <<Tok("start", TypeName(p.cls), <<>>)>>
     \o [n \in 1..Len(attrs) |-> Tok("attr", attrs[n], p.attribs[attrs[n]])]
     \o <<Tok("gt", "", <<>>), Tok("leaf", "name", key),
          Tok("leaf", "default", GetString(p))>>
     \o Concat([n \in 1..Len(tgs) |-> Child(tgs[n])])
     \o (IF cons = <<>> THEN <<>>
         ELSE <<Tok("open", "constraints", <<>>)>>
              \o [n \in 1..Len(cons) |-> Tok("leaf", cons[n], p.constraints[cons[n]])]
              \o <<Tok("close", "constraints", <<>>)>>)
     \o <<Tok("close", TypeName(p.cls), <<>>)>>

\* the block the descriptor is said to hold for the section sec
SectionBlock(sec) ==
  LET ks == SortedKeys(DOMAIN param[sec])
  IN <<Tok("open", "parameters", <<>>), Tok("leaf", "label", sec),
       Tok("leaf", "description",
           sec \o <<" ", "-", " ", "S", "e", "c", "t", "i", "o", "n">>)>>
     \o Concat([n \in 1..Len(ks) |-> ParamElement(ks[n], param[sec][ks[n]])])
     \o <<Tok("close", "parameters", <<>>)>>

\* C17: after the application tags the descriptor holds, per section in map
\* order, one element per parameter: named by its type tag, with the
\* non-empty attribs as attributes, and with the children name, default (the
\* current value), one per non-empty tag in map order (enumeration as nested
\* element children, split at the commas), and a constraints block exactly
\* when there are constraints.
C17_ParameterElements ==
  lastOp = "getXMLDescription"
  => SubSeq(out, 3 + Len(LeavesFrom(out, 3)), Len(out) - 1)
     = LET ss == SortedKeys(DOMAIN param)
       IN Concat([n \in 1..Len(ss) |-> SectionBlock(ss[n])])

\* C18: getSynopsis changes nothing that getXMLDescription or save shows: the
\* descriptor and the ini text of the registry are the same after it as
\* before it.
C18_SynopsisIsReadOnly ==
  [][ lastOp' = "getSynopsis"
      => /\ GetXMLDescription(tags', param') = GetXMLDescription(tags, param)
         /\ SaveText(param') = SaveText(param) ]_vars

----------------------------------------------------------------------------
(* What the conversions are said to do, under SpecConv.                    *)

\* the vectors of one to four ints among 1..4
SmallVectors == UNION {[1..k -> 1..4] : k \in 1..4}

\* C14: stringTo<std::vector<int> > of the comma-joined form of a vector that
\* is not empty, with or without one comma after it, returns that vector:
\* "1,2,3,4" gives [1,2,3,4] and "1,2,3," gives [1,2,3].
C14_TrailingCommaTolerated ==
  lastOp = "stringTo"
  => \A y \in SmallVectors :
       arg.x.s \in {IntVectorToString(y), IntVectorToString(y) \o <<",">>}
       => (fault = "none" /\ ret.v = y)

\* C15: stringTo<T>(toString(x)) returns x, for a bool, an int, a string, a
\* vector of ints and a vector of strings, the empty vectors included.
C15_RoundTrip ==
  lastOp = "roundTrip" => (fault = "none" /\ ret = arg.x)

====
